---- MODULE Spec2Model ----
(***************************************************************************)
(* Model of the block-body retrieval client contract                        *)
(* (crates/net/p2p/src/bodies/client.rs: BodiesClient default methods and   *)
(* the SingleBodyRequest future) and of ChainSpec::blob_params_at_timestamp *)
(* (crates/chainspec/src/api.rs).                                           *)
(***************************************************************************)
EXTENDS Naturals, Sequences, FiniteSets

VARIABLES
    slots,      \* request slot -> the request object held by the driver
    order,      \* slots in the order in which their requests completed
    chain,      \* the ChainSpec fields read by blob_params_at_timestamp
    query       \* the last blob_params_at_timestamp call and its result

vars == <<slots, order, chain, query>>

---------------------------------------------------------------------------
(* Bounds of the model *)

NumHashes == 2
MaxIds == 2
NumBodies == 2
MaxResp == 2
MaxRespConc == 1
NumPeers == 2
MaxTime == 2
MaxSched == 1

---------------------------------------------------------------------------
(* Values *)

Hashes == 1..NumHashes
Bodies == 1..NumBodies
Peers == 1..NumPeers

RECURSIVE SeqsUpTo(_, _)
SeqsUpTo(S, n) ==
    IF n = 0 THEN {<<>>}
    ELSE LET shorter == SeqsUpTo(S, n - 1)
         IN  shorter \cup {Append(s, x) : s \in {q \in shorter : Len(q) = n - 1}, x \in S}

\* priority::Priority
Priority == {"Normal", "High"}

\* Option<_>
None == [tag |-> "None"]
Some(v) == [tag |-> "Some", val |-> v]

\* Option<RangeInclusive<u64>> values used as range hints
RangeHints == {None, Some([start |-> 100, end |-> 102])}

\* error::RequestError values, with the peer the failure is attributed to
ErrorKinds == {"Timeout", "BadResponse"}
Errors == [kind : ErrorKinds, peer : Peers]

\* PeerRequestResult<T> = Result<WithPeerId<T>, RequestError>
Ok(p, d) == [tag |-> "Ok", peer |-> p, data |-> d]
Err(e) == [tag |-> "Err", error |-> e]

\* Poll<T>
Pending == [tag |-> "Pending"]
Ready(v) == [tag |-> "Ready", val |-> v]
NotPolled == [tag |-> "NotPolled"]

\* What a concrete client's batch future can resolve to
BatchOutcomes(maxResp) ==
    {Ok(p, d) : p \in Peers, d \in SeqsUpTo(Bodies, maxResp)} \cup {Err(e) : e \in Errors}

---------------------------------------------------------------------------
(* The concrete client behind the contract *)

NoOutcome == [tag |-> "NoOutcome"]

\* A concrete client (the `self` of the contract's methods).  The contract
\* requires of it that an empty request resolves at once to an empty
\* success; `peer` is the peer such a result is attributed to.
Clients == [peer : Peers]

\* The future returned by a concrete client's implementation of the
\* primitive.  `calls` is the log of primitive invocations made for it,
\* `outcome` what the network exchange produced (NoOutcome while in flight),
\* `polls` the polls of it during the current poll of its owner, `last` what
\* its last poll returned, `done` whether it has returned Ready.
ClientFuture(self, call) ==
    [calls   |-> <<call>>,
     outcome |-> IF call.hashes = <<>> THEN Ok(self.peer, <<>>) ELSE NoOutcome,
     polls   |-> 0,
     last    |-> NotPolled,
     done    |-> FALSE]

\* Future::poll of the client's future
poll_unpin(fut) ==
    LET out == IF fut.outcome = NoOutcome THEN Pending ELSE Ready(fut.outcome)
    IN  [fut |-> [fut EXCEPT !.polls = @ + 1, !.last = out, !.done = (out # Pending)],
         out |-> out]

---------------------------------------------------------------------------
(* BodiesClient *)

get_block_bodies_with_priority_and_range_hint(self, hashes, priority, range_hint) ==
    ClientFuture(self, [hashes |-> hashes, priority |-> priority, range_hint |-> range_hint])

\* Mutant of get_block_bodies_with_priority: the caller's priority is dropped
get_block_bodies_with_priority_DropsPriority(self, hashes, priority) ==
    get_block_bodies_with_priority_and_range_hint(self, hashes, "Normal", None)

get_block_bodies_with_priority(self, hashes, priority) ==
    get_block_bodies_with_priority_and_range_hint(self, hashes, priority, None)

\* Mutant of get_block_bodies: the batch is requested at High priority
get_block_bodies_High(self, hashes) ==
    get_block_bodies_with_priority(self, hashes, "High")

get_block_bodies(self, hashes) ==
    get_block_bodies_with_priority(self, hashes, "Normal")

\* SingleBodyRequest { fut }
SingleBodyRequest(fut) == [fut |-> fut]

get_block_body_with_priority(self, hash, priority) ==
    LET fut == get_block_bodies_with_priority(self, <<hash>>, priority)
    IN  SingleBodyRequest(fut)

get_block_body(self, hash) ==
    get_block_body_with_priority(self, hash, "Normal")

\* Mutant of into_iter_next: the last body is taken (bodies.pop())
into_iter_next_Last(bodies) ==
    IF bodies = <<>> THEN None ELSE Some(bodies[Len(bodies)])

\* bodies.into_iter().next()
into_iter_next(bodies) ==
    IF bodies = <<>> THEN None ELSE Some(Head(bodies))

\* Mutants of map_first: an empty batch becomes a failure; a failure becomes
\* an empty success
map_first_EmptyFails(resp) ==
    IF resp.tag = "Ok"
    THEN IF resp.data = <<>>
         THEN Err([kind |-> "BadResponse", peer |-> resp.peer])
         ELSE [tag |-> "Ok", peer |-> resp.peer, item |-> Some(Head(resp.data))]
    ELSE resp

map_first_ErrToNone(resp) ==
    IF resp.tag = "Ok"
    THEN [tag |-> "Ok", peer |-> resp.peer,
          item |-> IF resp.data = <<>> THEN None ELSE Some(Head(resp.data))]
    ELSE [tag |-> "Ok", peer |-> resp.error.peer, item |-> None]

\* resp.map(|res| res.map(|bodies| bodies.into_iter().next()))
map_first(resp) ==
    IF resp.tag = "Ok"
    THEN [tag |-> "Ok", peer |-> resp.peer, item |-> into_iter_next(resp.data)]
    ELSE resp

\* Mutants of SingleBodyRequest_poll: a failed batch is requested again
\* instead of being reported; a completed batch is reported one poll late
SingleBodyRequest_poll_Retry(self) ==
    LET p == poll_unpin(self.fut)
    IN  IF p.out = Pending
        THEN [self |-> [self EXCEPT !.fut = p.fut], out |-> Pending]
        ELSE IF p.out.val.tag = "Err" /\ Len(self.fut.calls) = 1
        THEN [self |-> [self EXCEPT !.fut = [p.fut EXCEPT
                            !.calls = Append(@, @[1]), !.outcome = [tag |-> "NoOutcome"]]],
              out |-> Pending]
        ELSE [self |-> [self EXCEPT !.fut = p.fut],
              out |-> Ready(IF p.out.val.tag = "Ok"
                            THEN [tag |-> "Ok", peer |-> p.out.val.peer,
                                  item |-> IF p.out.val.data = <<>> THEN None
                                           ELSE Some(Head(p.out.val.data))]
                            ELSE p.out.val)]

SingleBodyRequest_poll_Late(self) ==
    IF self.fut.last.tag = "Ready"
    THEN [self |-> self,
          out |-> Ready(IF self.fut.last.val.tag = "Ok"
                        THEN [tag |-> "Ok", peer |-> self.fut.last.val.peer,
                              item |-> IF self.fut.last.val.data = <<>> THEN None
                                       ELSE Some(Head(self.fut.last.val.data))]
                        ELSE self.fut.last.val)]
    ELSE [self |-> [self EXCEPT !.fut = poll_unpin(self.fut).fut], out |-> Pending]

\* <SingleBodyRequest as Future>::poll
SingleBodyRequest_poll(self) ==
    LET p == poll_unpin(self.fut)
    IN  IF p.out = Pending
        THEN [self |-> [self EXCEPT !.fut = p.fut], out |-> Pending]
        ELSE [self |-> [self EXCEPT !.fut = p.fut], out |-> Ready(map_first(p.out.val))]

---------------------------------------------------------------------------
(* The driver: issues requests into slots and polls them *)

Slots == {1, 2}

Empty == [op |-> "none"]

\* A request as the caller holds it: the operation called and its
\* arguments, whether the returned future is the adapter, the returned
\* future (a batch future, or the adapter around one), and what the last
\* poll of it returned.
Request(op, args, adapter, req) ==
    [op |-> op, args |-> args, adapter |-> adapter, req |-> req, last |-> NotPolled]

Issued(s) == s.op # "none"
Completed(s) == Issued(s) /\ s.last.tag = "Ready"
InnerFut(s) == IF s.adapter THEN s.req.fut ELSE s.req

\* The poll counter of the wrapped future counts within one poll of its owner
BeginPoll(fut) == [fut EXCEPT !.polls = 0]

CallGetBlockBodies(r, self, hashes) ==
    /\ slots[r] = Empty
    /\ slots' = [slots EXCEPT ![r] =
          Request("get_block_bodies", [hashes |-> hashes], FALSE,
                  get_block_bodies(self, hashes))]
    /\ UNCHANGED <<order, chain, query>>

CallGetBlockBodiesWithPriority(r, self, hashes, priority) ==
    /\ slots[r] = Empty
    /\ slots' = [slots EXCEPT ![r] =
          Request("get_block_bodies_with_priority",
                  [hashes |-> hashes, priority |-> priority], FALSE,
                  get_block_bodies_with_priority(self, hashes, priority))]
    /\ UNCHANGED <<order, chain, query>>

CallGetBlockBodiesWithPriorityAndRangeHint(r, self, hashes, priority, range_hint) ==
    /\ slots[r] = Empty
    /\ slots' = [slots EXCEPT ![r] =
          Request("get_block_bodies_with_priority_and_range_hint",
                  [hashes |-> hashes, priority |-> priority, range_hint |-> range_hint],
                  FALSE,
                  get_block_bodies_with_priority_and_range_hint(self, hashes, priority,
                                                                range_hint))]
    /\ UNCHANGED <<order, chain, query>>

CallGetBlockBody(r, self, hash) ==
    /\ slots[r] = Empty
    /\ slots' = [slots EXCEPT ![r] =
          Request("get_block_body", [hash |-> hash], TRUE, get_block_body(self, hash))]
    /\ UNCHANGED <<order, chain, query>>

CallGetBlockBodyWithPriority(r, self, hash, priority) ==
    /\ slots[r] = Empty
    /\ slots' = [slots EXCEPT ![r] =
          Request("get_block_body_with_priority", [hash |-> hash, priority |-> priority],
                  TRUE, get_block_body_with_priority(self, hash, priority))]
    /\ UNCHANGED <<order, chain, query>>

\* The concrete client's network exchange for slot r ends with `res`
NetworkComplete(r, res) ==
    /\ Issued(slots[r])
    /\ InnerFut(slots[r]).outcome = NoOutcome
    /\ slots' = [slots EXCEPT ![r] =
          IF @.adapter THEN [@ EXCEPT !.req.fut.outcome = res]
          ELSE [@ EXCEPT !.req.outcome = res]]
    /\ UNCHANGED <<order, chain, query>>

\* The caller polls the batch future it holds in slot r
PollBatchRequest(ss, r) ==
    LET p == poll_unpin(BeginPoll(ss[r].req))
    IN  [ss EXCEPT ![r] = [@ EXCEPT !.req = p.fut, !.last = p.out]]

\* Mutant of PollSingleRequest: the adapters share one wrapped future, that
\* of the first adapter in flight
PollSingleRequest_Shared(ss, r) ==
    LET first == CHOOSE q \in DOMAIN ss :
                    /\ ss[q].op # "none" /\ ss[q].adapter
                    /\ \A q2 \in DOMAIN ss : (ss[q2].op # "none" /\ ss[q2].adapter) => q <= q2
        own == [ss[first].req EXCEPT !.fut = [@ EXCEPT !.polls = 0]]
        p == LET i == IF own.fut.outcome = [tag |-> "NoOutcome"] THEN Pending
                      ELSE Ready(own.fut.outcome)
             IN  [self |-> [own EXCEPT !.fut = [@ EXCEPT !.polls = 1, !.last = i,
                                                         !.done = (i # Pending)]],
                  out |-> IF i = Pending THEN Pending
                          ELSE Ready(IF i.val.tag = "Ok"
                                     THEN [tag |-> "Ok", peer |-> i.val.peer,
                                           item |-> IF i.val.data = <<>> THEN None
                                                    ELSE Some(Head(i.val.data))]
                                     ELSE i.val)]
    IN  [ss EXCEPT ![r] = [@ EXCEPT !.req = p.self, !.last = p.out]]

\* The caller polls the adapter it holds in slot r; the adapter polls the
\* future it owns (self.get_mut().fut)
PollSingleRequest(ss, r) ==
    LET own == [ss[r].req EXCEPT !.fut = BeginPoll(@)]
        p == SingleBodyRequest_poll(own)
    IN  [ss EXCEPT ![r] = [@ EXCEPT !.req = p.self, !.last = p.out]]

PollBatch(r) ==
    /\ Issued(slots[r])
    /\ ~slots[r].adapter
    /\ ~Completed(slots[r])
    /\ slots' = PollBatchRequest(slots, r)
    /\ order' = IF Completed(slots'[r]) THEN Append(order, r) ELSE order
    /\ UNCHANGED <<chain, query>>

PollSingle(r) ==
    /\ Issued(slots[r])
    /\ slots[r].adapter
    /\ ~Completed(slots[r])
    /\ slots' = PollSingleRequest(slots, r)
    /\ order' = IF Completed(slots'[r]) THEN Append(order, r) ELSE order
    /\ UNCHANGED <<chain, query>>

\* The caller drops the request of slot r, completed or not
Drop(r) ==
    /\ Issued(slots[r])
    /\ slots' = [slots EXCEPT ![r] = Empty]
    /\ order' = SelectSeq(order, LAMBDA x : x # r)
    /\ UNCHANGED <<chain, query>>

---------------------------------------------------------------------------
(* ChainSpec::blob_params_at_timestamp *)

\* ForkCondition of a timestamp-activated fork
Never == [tag |-> "Never"]
Timestamp(ts) == [tag |-> "Timestamp", ts |-> ts]

Times == 0..MaxTime
ForkConditions == {Never} \cup {Timestamp(ts) : ts \in Times}

\* ForkCondition::active_at_timestamp
active_at_timestamp(cond, timestamp) ==
    cond.tag = "Timestamp" /\ timestamp >= cond.ts

is_cancun_active_at_timestamp(self, timestamp) ==
    active_at_timestamp(self.cancun, timestamp)

is_prague_active_at_timestamp(self, timestamp) ==
    active_at_timestamp(self.prague, timestamp)

is_osaka_active_at_timestamp(self, timestamp) ==
    active_at_timestamp(self.osaka, timestamp)

\* BlobScheduleBlobParams::active_scheduled_params_at_timestamp: the last
\* entry of the schedule (kept sorted by timestamp) whose timestamp has come
RECURSIVE rev_find(_, _, _)
rev_find(scheduled, i, timestamp) ==
    IF i = 0 THEN None
    ELSE IF timestamp >= scheduled[i].ts THEN Some(scheduled[i].params)
    ELSE rev_find(scheduled, i - 1, timestamp)

active_scheduled_params_at_timestamp(blob_params, timestamp) ==
    rev_find(blob_params.scheduled, Len(blob_params.scheduled), timestamp)

\* Mutant of blob_params_at_timestamp: the forks are consulted before the
\* schedule
blob_params_at_timestamp_ForksFirst(self, timestamp) ==
    LET blob_param == active_scheduled_params_at_timestamp(self.blob_params, timestamp)
    IN  IF is_osaka_active_at_timestamp(self, timestamp) THEN Some(self.blob_params.osaka)
        ELSE IF is_prague_active_at_timestamp(self, timestamp) THEN Some(self.blob_params.prague)
        ELSE IF is_cancun_active_at_timestamp(self, timestamp) THEN Some(self.blob_params.cancun)
        ELSE IF blob_param # None THEN Some(blob_param.val)
        ELSE None

blob_params_at_timestamp(self, timestamp) ==
    LET blob_param == active_scheduled_params_at_timestamp(self.blob_params, timestamp)
    IN  IF blob_param # None THEN Some(blob_param.val)
        ELSE IF is_osaka_active_at_timestamp(self, timestamp) THEN Some(self.blob_params.osaka)
        ELSE IF is_prague_active_at_timestamp(self, timestamp) THEN Some(self.blob_params.prague)
        ELSE IF is_cancun_active_at_timestamp(self, timestamp) THEN Some(self.blob_params.cancun)
        ELSE None

\* BlobParams values
BlobParams(name) == [schedule |-> name]
ScheduledParams == {BlobParams("bpo1"), BlobParams("bpo2")}

SortedByTs(s) == \A i \in 1..(Len(s) - 1) : s[i].ts <= s[i + 1].ts

Schedules ==
    {s \in SeqsUpTo([ts : Times, params : ScheduledParams], MaxSched) : SortedByTs(s)}

ChainSpecs ==
    [cancun : ForkConditions, prague : ForkConditions, osaka : ForkConditions,
     blob_params : [cancun : {BlobParams("cancun")}, prague : {BlobParams("prague")},
                    osaka : {BlobParams("osaka")}, scheduled : Schedules]]

\* Mainnet-like chain spec used while the client is exercised
DefaultChain ==
    [cancun |-> Timestamp(0), prague |-> Timestamp(0), osaka |-> Never,
     blob_params |-> [cancun |-> BlobParams("cancun"), prague |-> BlobParams("prague"),
                      osaka |-> BlobParams("osaka"), scheduled |-> <<>>]]

NotQueried == [tag |-> "NotQueried"]

QueryBlobParams(timestamp) ==
    /\ query' = [tag |-> "Queried", timestamp |-> timestamp,
                 result |-> blob_params_at_timestamp(chain, timestamp)]
    /\ UNCHANGED <<slots, order, chain>>

---------------------------------------------------------------------------
(* Specifications *)

InitClient ==
    /\ slots = [r \in Slots |-> Empty]
    /\ order = <<>>
    /\ chain = DefaultChain
    /\ query = NotQueried

Init == InitClient

\* One caller exercising every operation of the contract
Next ==
    \/ \E self \in Clients, hashes \in SeqsUpTo(Hashes, MaxIds) :
          CallGetBlockBodies(1, self, hashes)
    \/ \E self \in Clients, hashes \in SeqsUpTo(Hashes, MaxIds), priority \in Priority :
          CallGetBlockBodiesWithPriority(1, self, hashes, priority)
    \/ \E self \in Clients, hashes \in SeqsUpTo(Hashes, MaxIds), priority \in Priority,
          range_hint \in RangeHints :
          CallGetBlockBodiesWithPriorityAndRangeHint(1, self, hashes, priority, range_hint)
    \/ \E self \in Clients, hash \in Hashes : CallGetBlockBody(1, self, hash)
    \/ \E self \in Clients, hash \in Hashes, priority \in Priority :
          CallGetBlockBodyWithPriority(1, self, hash, priority)
    \/ \E res \in BatchOutcomes(MaxResp) : NetworkComplete(1, res)
    \/ PollBatch(1)
    \/ PollSingle(1)
    \/ Drop(1)

Spec == Init /\ [][Next]_vars

\* Two callers with requests in flight at the same client
NextConc ==
    \/ \E r \in Slots, self \in Clients, hash \in Hashes :
          CallGetBlockBodies(r, self, <<hash>>)
    \/ \E r \in Slots, self \in Clients, hash \in Hashes : CallGetBlockBody(r, self, hash)
    \/ \E r \in Slots, res \in BatchOutcomes(MaxRespConc) : NetworkComplete(r, res)
    \/ \E r \in Slots : PollBatch(r)
    \/ \E r \in Slots : PollSingle(r)
    \/ \E r \in Slots : Drop(r)

SpecConc == Init /\ [][NextConc]_vars

\* A chain spec answering blob-parameter queries
InitBlob ==
    /\ slots = [r \in Slots |-> Empty]
    /\ order = <<>>
    /\ chain \in ChainSpecs
    /\ query = NotQueried

NextBlob == \E timestamp \in Times : QueryBlobParams(timestamp)

SpecBlob == InitBlob /\ [][NextBlob]_vars

---------------------------------------------------------------------------
(* Properties *)

Adapters == {r \in Slots : Issued(slots[r]) /\ slots[r].adapter}
Batches == {r \in Slots : Issued(slots[r]) /\ ~slots[r].adapter}
Outcome(r) == InnerFut(slots[r]).outcome
Calls(r) == InnerFut(slots[r]).calls

\* C1: when the batch call behind a single-item request succeeds with an
\* empty sequence from peer P, the request resolves to success with no item,
\* attributed to P, and not to a failure.
C1_EmptyBatchIsNone ==
    \A r \in Adapters :
        (Completed(slots[r]) /\ Outcome(r).tag = "Ok" /\ Outcome(r).data = <<>>)
            => slots[r].last = Ready([tag |-> "Ok", peer |-> Outcome(r).peer, item |-> None])

C1_Witness ==
    \E r \in Adapters :
        /\ slots[r].op = "get_block_body"
        /\ Completed(slots[r])
        /\ Outcome(r).tag = "Ok" /\ Outcome(r).data = <<>>
        /\ slots[r].last.val.tag = "Ok"

\* C2: when the batch call behind a single-item request fails, the request
\* resolves to that same failure value (kind and peer), never to a success.
C2_FailureForwarded ==
    \A r \in Adapters :
        (Completed(slots[r]) /\ Outcome(r).tag = "Err")
            => /\ slots[r].last = Ready(Outcome(r))
               /\ slots[r].last.val.tag # "Ok"

C2_Witness ==
    \E r \in Adapters :
        /\ Completed(slots[r])
        /\ Outcome(r) = Err([kind |-> "Timeout", peer |-> 2])
        /\ slots[r].last.val.error.peer = 2

\* C3: when the batch call behind a single-item request succeeds with one or
\* more items from peer P, the request resolves to success with the item at
\* index 0, attributed to P; the other items are dropped.
C3_FirstItem ==
    \A r \in Adapters :
        (Completed(slots[r]) /\ Outcome(r).tag = "Ok" /\ Len(Outcome(r).data) >= 1)
            => slots[r].last =
                   Ready([tag |-> "Ok", peer |-> Outcome(r).peer,
                          item |-> [tag |-> "Some", val |-> Outcome(r).data[1]]])

C3_Witness ==
    \E r \in Adapters :
        /\ Completed(slots[r])
        /\ Outcome(r).tag = "Ok" /\ Len(Outcome(r).data) >= 2
        /\ Outcome(r).data[1] # Outcome(r).data[2]
        /\ slots[r].last.val.item.val = Outcome(r).data[1]

\* C4: get_block_bodies(ids) with ids non-empty makes exactly one call of
\* the primitive, with ids in the same order, priority Normal and no range
\* hint, and hands the primitive's result to the caller untouched.
C4_BodiesIsPrimitiveNormalNoHint ==
    \A r \in Batches :
        (slots[r].op = "get_block_bodies" /\ slots[r].args.hashes # <<>>)
            => /\ Calls(r) = <<[hashes |-> slots[r].args.hashes, priority |-> "Normal",
                                range_hint |-> None]>>
               /\ slots[r].last \in {NotPolled, Pending, Ready(Outcome(r))}
               /\ (slots[r].last = Pending => ~slots[r].req.done)

C4_Witness ==
    \E r \in Batches :
        /\ slots[r].op = "get_block_bodies"
        /\ Len(slots[r].args.hashes) = 2
        /\ slots[r].args.hashes[1] # slots[r].args.hashes[2]
        /\ Completed(slots[r])
        /\ Outcome(r).tag = "Ok"

\* C5: get_block_bodies_with_priority(ids, priority) makes exactly one call
\* of the primitive, with the same ids, the caller's priority and no range
\* hint, and hands the primitive's result to the caller untouched.
C5_WithPriorityIsPrimitiveNoHint ==
    \A r \in Batches :
        (slots[r].op = "get_block_bodies_with_priority")
            => /\ Calls(r) = <<[hashes |-> slots[r].args.hashes,
                                priority |-> slots[r].args.priority,
                                range_hint |-> None]>>
               /\ slots[r].last \in {NotPolled, Pending, Ready(Outcome(r))}
               /\ (slots[r].last = Pending => ~slots[r].req.done)

C5_Witness ==
    \E r \in Batches :
        /\ slots[r].op = "get_block_bodies_with_priority"
        /\ slots[r].args.priority = "High"
        /\ slots[r].args.hashes # <<>>
        /\ Completed(slots[r])

\* C6 (an empty request resolves at once to an empty success) is a
\* requirement on the implementations of the primitive, which has no body
\* in client.rs:44-49; the default methods only pass the empty list on
\* (C4, C5).  ClientFuture assumes the requirement, so no property stated
\* here could test it, and none is.

\* C7: a single-item request has made exactly one call of the primitive,
\* with the one-element sequence of its identifier, the caller's priority
\* (Normal for get_block_body) and no range hint, and holds the adapter
\* around that one operation; this stays so after the operation failed.
C7_SingleIsOneBatchCall ==
    \A r \in Slots :
        (Issued(slots[r]) /\ slots[r].op \in {"get_block_body", "get_block_body_with_priority"})
            => /\ slots[r].adapter
               /\ Calls(r) =
                    <<[hashes |-> <<slots[r].args.hash>>,
                       priority |-> IF slots[r].op = "get_block_body" THEN "Normal"
                                    ELSE slots[r].args.priority,
                       range_hint |-> None]>>

C7_Witness ==
    \E r \in Adapters :
        /\ slots[r].op = "get_block_body_with_priority"
        /\ slots[r].args.priority = "High"
        /\ Completed(slots[r])
        /\ slots[r].last.val.tag = "Err"
        /\ Len(Calls(r)) = 1

\* C8: a poll of the adapter polls the wrapped operation exactly once; it
\* returns Pending exactly when that poll returned Pending, and returns
\* Ready, with the projection applied once, in the poll in which the wrapped
\* operation returned Ready.
C8_NoExtraSuspension ==
    \A r \in Adapters :
        IF slots[r].last = NotPolled
        THEN slots[r].req.fut.polls = 0 /\ slots[r].req.fut.last = NotPolled
        ELSE /\ slots[r].req.fut.polls = 1
             /\ (slots[r].last = Pending) <=> (slots[r].req.fut.last = Pending)
             /\ slots[r].req.fut.last.tag = "Ready"
                   => slots[r].last = Ready(map_first(slots[r].req.fut.last.val))

C8_Witness ==
    \E r \in Adapters :
        /\ slots[r].req.fut.polls = 1
        /\ slots[r].req.fut.last.tag = "Ready"
        /\ slots[r].last.tag = "Ready"
        /\ slots[r].last.val.tag = "Ok"
        /\ slots[r].last.val.item # None

\* C9: with two requests in flight at one client, under every interleaving
\* of their polls each completed request holds the outcome of its own
\* wrapped operation (projected, for an adapter) and its own single call.
C9_NoInterference ==
    \A r \in Slots :
        Completed(slots[r])
            => /\ slots[r].last =
                    Ready(IF slots[r].adapter THEN map_first(Outcome(r)) ELSE Outcome(r))
               /\ Len(Calls(r)) = 1
               /\ Calls(r)[1].hashes =
                    (IF slots[r].adapter THEN <<slots[r].args.hash>> ELSE slots[r].args.hashes)
               /\ \E i \in 1..Len(order) : order[i] = r

C9_Witness ==
    /\ order = <<2, 1>>
    /\ slots[1].adapter /\ slots[2].adapter
    /\ Completed(slots[1]) /\ Completed(slots[2])
    /\ slots[1].last.val.tag = "Err"
    /\ slots[2].last.val.tag = "Ok"
    /\ slots[1].args.hash # slots[2].args.hash

\* C10: blob_params_at_timestamp(t) is the scheduled entry active at t if
\* there is one; otherwise the Osaka parameters if Osaka is active at t;
\* otherwise the Prague parameters if Prague is active; otherwise the Cancun
\* parameters if Cancun is active; and None exactly when none of these is.
C10_BlobParamsPrecedence ==
    query # NotQueried =>
        LET t == query.timestamp
            sched == {i \in 1..Len(chain.blob_params.scheduled) :
                         chain.blob_params.scheduled[i].ts <= t}
            osaka == chain.osaka # Never /\ chain.osaka.ts <= t
            prague == chain.prague # Never /\ chain.prague.ts <= t
            cancun == chain.cancun # Never /\ chain.cancun.ts <= t
        IN  /\ sched # {} =>
                  \E i \in sched :
                      /\ \A j \in sched : j <= i
                      /\ query.result = Some(chain.blob_params.scheduled[i].params)
            /\ (sched = {} /\ osaka) => query.result = Some(chain.blob_params.osaka)
            /\ (sched = {} /\ ~osaka /\ prague) => query.result = Some(chain.blob_params.prague)
            /\ (sched = {} /\ ~osaka /\ ~prague /\ cancun)
                  => query.result = Some(chain.blob_params.cancun)
            /\ (query.result = None) <=> (sched = {} /\ ~osaka /\ ~prague /\ ~cancun)

C10_Witness ==
    /\ query # NotQueried
    /\ Len(chain.blob_params.scheduled) >= 1
    /\ chain.blob_params.scheduled[1].ts <= query.timestamp
    /\ chain.osaka # Never /\ chain.osaka.ts <= query.timestamp
    /\ chain.prague # Never /\ chain.cancun # Never
    /\ query.result = Some(chain.blob_params.scheduled[1].params)

====
